---- MODULE Spec2Model ----
(***************************************************************************)
(* Model of the VKE SDK client (cluster-autoscaler/cloudprovider/vke/sdk): *)
(* clock-offset memoisation (getTimeDelta / getTime), request building     *)
(* (NewRequest), dispatch (Do), response decoding (UnmarshalResponse) and  *)
(* the regional fallback of CallAPIWithContext.                            *)
(*                                                                         *)
(* Every caller goroutine p owns a call stack of frames; the last element  *)
(* of stack[p] is the running frame.  Frames of three functions exist:     *)
(* getTimeDelta, getTime and CallAPIWithContext (NewRequest, Do and        *)
(* UnmarshalResponse run inside the CallAPIWithContext frame).             *)
(***************************************************************************)
EXTENDS Integers, Sequences, FiniteSets, TLC

VARIABLES
    VKE,        \* package variable VKE (os.Getenv("VKE_URL")), vke.go:39
    clients,    \* the Client objects: clients[1] is the shared client
    stack,      \* stack[p]: call stack of caller goroutine p
    ret,        \* ret[p]: value returned by the frame that p popped last
    cancelled,  \* cancelled[p]: the context p passes to its call is canceled
    ops,        \* ops[p]: number of public operations p has started
    results,    \* results[p]: what p's finished public operations returned
    count,      \* count[p]: exchanges and fallback calls of p's operation
    stats,      \* stats.fetches: the exchanges sent on behalf of getTimeDelta
                \* of the shared client; stats.failed: one of them failed
    unit        \* a function of the package called on its own: its name, its
                \* arguments and what it returned

vars == <<VKE, clients, stack, ret, cancelled, ops, results, count, stats, unit>>

----------------------------------------------------------------------------
(* Bounds *)

NumCallers == 2     \* concurrent caller goroutines
MaxCalls == 1       \* public operations each caller starts
MaxHops == 2        \* cross-region answers the servers give along one call
MaxSkew == 2        \* largest clock offset the time fetch can measure

Procs == 1..NumCallers

\* DefaultTimeout, in seconds
DefaultTimeout == 180

----------------------------------------------------------------------------
(* Strings are sequences of characters, so that strings.Contains and the   *)
(* concatenation of endpoint and path are computed, not assumed.           *)

Contains(s, ch) == \E i \in 1..Len(s) : s[i] = ch

EmptyStr == << >>
EuUrl == <<"e", "/">>          \* an explicit endpoint URL
VkeUrl == <<"v", "/">>         \* a value of VKE_URL that is a URL
VkeName == <<"v", "k", "e">>   \* the one key of the Endpoints table
BadName == <<"x">>             \* a name the Endpoints table does not have
TimePath == <<"/", "t">>       \* "/auth/time"
PoolPath == <<"/", "n">>       \* "/cluster/{id}/nodegroups"
Tok == <<"t">>                 \* a keystone token

\* var Endpoints = map[string]string{"vke": VKE}; a missing key reads ""
Endpoints(vke, name) == IF name = VkeName THEN vke ELSE EmptyStr

----------------------------------------------------------------------------
(* Errors and return values *)

\* An error value: its type (kind), APIError.Code, its message, the value
\* formatted into the message (arg) and APIError.QueryID (qid)
Err(k, c, m) == [kind |-> k, code |-> c, msg |-> m, arg |-> << >>, qid |-> ""]
Nil == Err("nil", 0, "")
Ret(v, e) == [val |-> v, err |-> e]
NoRet == Ret(0, Nil)

\* The errors of the transport: the context was canceled, the network failed
ErrCanceled == Err("transport", 0, "context canceled")
ErrNetwork == Err("transport", 0, "network")

\* context.Background(): the context that is never canceled
Background == 0

----------------------------------------------------------------------------
(* Client construction *)

\* The Client struct as NewClient fills it in; Client.Client.Timeout of the
\* fresh &http.Client{} is zero.
NewClientStruct(appKey, appSecret) ==
    [ AppKey |-> appKey, AppSecret |-> appSecret, endpoint |-> EmptyStr,
      httpTimeout |-> 0, timeDeltaMutex |-> 0, timeDeltaDone |-> FALSE,
      timeDelta |-> 0, Timeout |-> DefaultTimeout, openStackToken |-> EmptyStr,
      synced |-> {} ]

\* loadConfig without the test of the application key
loadConfig_nokey(c, vke, endpointName) ==
    LET ep == IF Contains(endpointName, "/") THEN endpointName
              ELSE Endpoints(vke, endpointName)
        c2 == [c EXCEPT !.endpoint = ep]
    IN  IF ep = EmptyStr
        THEN [c |-> c2, err |-> [Err("config", 0, "unknown endpoint") EXCEPT !.arg = endpointName]]
        ELSE IF c.AppSecret = "" THEN [c |-> c2, err |-> Err("config", 0, "missing application secret")]
        ELSE [c |-> c2, err |-> Nil]

\* loadConfig: [c |-> the client after the call, err |-> its error]
loadConfig(c, vke, endpointName) ==
    LET ep == IF Contains(endpointName, "/") THEN endpointName
              ELSE Endpoints(vke, endpointName)
        c2 == [c EXCEPT !.endpoint = ep]
    IN  IF ep = EmptyStr
        THEN [c |-> c2, err |-> [Err("config", 0, "unknown endpoint") EXCEPT !.arg = endpointName]]
        ELSE IF c.AppKey = "" THEN [c |-> c2, err |-> Err("config", 0, "missing application key")]
        ELSE IF c.AppSecret = "" THEN [c |-> c2, err |-> Err("config", 0, "missing application secret")]
        ELSE [c |-> c2, err |-> Nil]

\* NewClient: [ok |-> a client was returned, c |-> that client, err |-> error]
NewClient(vke, endpoint, appKey, appSecret) ==
    LET r == loadConfig(NewClientStruct(appKey, appSecret), vke, endpoint)
    IN  [c |-> r.c, err |-> r.err, ok |-> r.err = Nil]

NewDefaultClientWithToken(vke, token) ==
    LET r == NewClient(vke, vke, "none", "none")
    IN  IF r.ok THEN [r EXCEPT !.c.openStackToken = token] ELSE r

\* func NewEndpointClient(endpoint string): return NewClient(endpoint, "", "", "")
NewEndpointClient(vke, endpoint) == NewClient(vke, endpoint, "", "")

\* func NewDefaultClient(): return NewClient("", "", "", "")
NewDefaultClient(vke) == NewClient(vke, EmptyStr, "", "")

\* A slot of clients whose fallback client is no longer referenced
Freed == [NewClientStruct("", "") EXCEPT !.AppKey = "freed"]

----------------------------------------------------------------------------
(* Requests, responses and decoding *)

\* The arguments of a call: reqBody is "nil", or a value told by body ("ok",
\* "bad", or "opts": the *UpdateNodePoolOpts in opts); hdrs is the caller's
\* headers map, a function from header names to values (nil: no names);
\* query is queryParams, << >> when nil
ReqWith(m, path, body, sink, auth, hdrs, opts) ==
    [ path |-> path, body |-> body, sink |-> sink, hdrs |-> hdrs,
      opts |-> opts, method |-> m, needAuth |-> auth, query |-> << >> ]

Req(m, path, body, sink, auth) == ReqWith(m, path, body, sink, auth, << >>, << >>)

\* getTime: c.GetUnAuth("/auth/time", &timestamp, nil)
TimeReq == Req("GET", TimePath, "nil", "int64", FALSE)
NoReq == Req("", EmptyStr, "nil", "nil", FALSE)

\* The calls a caller makes through CallAPIWithContext: body is "nil" (no
\* reqBody), "ok" (a value json.Marshal accepts) or "bad" (one it rejects);
\* sink is the type behind result ("nil" when result is nil).  The first has
\* query parameters and a header of the caller's.
Requests ==
    { [ ReqWith("GET", PoolPath, "nil", "struct", TRUE,
                [h \in {"X-Custom"} |-> <<"caller">>], << >>)
        EXCEPT !.query = <<"limit=1">> ],
      Req("PUT", PoolPath, "ok", "nil", FALSE),
      Req("POST", PoolPath, "bad", "struct", TRUE) }

\* What a server can answer.  Bodies: "" empty, "ts" a JSON integer, "boom"
\* not JSON, "sync" the JSON error record of the cross-region condition.
Bodies == {"", "ts", "boom", "sync"}
Resp(st, b) == [body |-> b, status |-> st, hdrQueryID |-> ""]
Responses ==
    { Resp(200, b) : b \in Bodies } \cup { Resp(404, "boom"), Resp(404, "sync") }

\* The endpoints that list resources can also answer a JSON array, "list"
Answers(req) ==
    IF req.sink = "slice" THEN Responses \cup {Resp(200, "list")} ELSE Responses

\* The bodies that are JSON objects: "sync", and "notfound", the record
\* {"code":404,"message":"not found"}
IsJSONObject(body) == body \in {"sync", "notfound"}

\* json.Unmarshal(body, apiError): the fields of APIError an error record
\* sets, for a body that is one
APIErrorRecord(body) ==
    IF body = "sync" THEN [code |-> 404, message |-> "sync"]
    ELSE [code |-> 404, message |-> "not found"]

\* An APIError without its status code
ParseAPIError_nocode(resp) ==
    [ (IF IsJSONObject(resp.body)
       THEN Err("api", APIErrorRecord(resp.body).code, APIErrorRecord(resp.body).message)
       ELSE Err("api", 0, resp.body))
      EXCEPT !.qid = resp.hdrQueryID ]

\* apiError := &APIError{Code: response.StatusCode}; if json.Unmarshal(body,
\* apiError) fails, apiError.Message = string(body); apiError.QueryID =
\* response.Header.Get("X-VKE-QueryID")
ParseAPIError(resp) ==
    [ (IF IsJSONObject(resp.body)
       THEN Err("api", APIErrorRecord(resp.body).code, APIErrorRecord(resp.body).message)
       ELSE Err("api", resp.status, resp.body))
      EXCEPT !.qid = resp.hdrQueryID ]

\* json.Unmarshal(body, &result) succeeds
DecodesInto(body, sink) ==
    \/ sink = "int64" /\ body = "ts"
    \/ sink = "struct" /\ IsJSONObject(body)
    \/ sink = "slice" /\ body = "list"

\* UnmarshalResponse parsing every body it was given a result for
UnmarshalResponse_eager(resp, sink) ==
    IF resp.status < 200 \/ resp.status >= 300
    THEN Ret(0, ParseAPIError(resp))
    ELSE IF sink = "nil" THEN Ret(0, Nil)
    ELSE IF DecodesInto(resp.body, sink) THEN Ret(1, Nil)
    ELSE Ret(0, Err("decode", 0, ""))

\* UnmarshalResponse: the value left in the result sink and the error
UnmarshalResponse(resp, sink) ==
    IF resp.status < 200 \/ resp.status >= 300
    THEN Ret(0, ParseAPIError(resp))
    ELSE IF resp.body = "" \/ sink = "nil" THEN Ret(0, Nil)
    ELSE IF DecodesInto(resp.body, sink) THEN Ret(1, Nil)
    ELSE Ret(0, Err("decode", 0, ""))

\* req.URL.String(): fmt.Sprintf("%s%s", c.endpoint, path)
Target(c, path) == c.endpoint \o path

\* The classifier of the cross-region condition, over {error, request URL}
IsPossiblyCanadianTenantSyncError(err, url) ==
    err.kind = "api" /\ err.msg = "sync" /\ url # EmptyStr

----------------------------------------------------------------------------
(* The request NewRequest builds *)

\* fmt.Sprintf(format) with no operands: "%%" prints "%", any other verb
\* prints as missing, a trailing "%" as having no verb
RECURSIVE Sprintf(_)
Sprintf(s) ==
    IF s = << >> THEN << >>
    ELSE IF Head(s) # "%" THEN <<Head(s)>> \o Sprintf(Tail(s))
    ELSE IF Len(s) = 1 THEN <<"%!(NOVERB)">>
    ELSE IF s[2] = "%" THEN <<"%">> \o Sprintf(SubSeq(s, 3, Len(s)))
    ELSE <<"%!", s[2], "(MISSING)">> \o Sprintf(SubSeq(s, 3, Len(s)))

\* Header names, in canonical form, and the values NewRequest writes
HeaderNames == {"Content-Type", "Accept", "X-Auth-Token", "X-Custom"}
JSONCharset == <<"application/json;charset=utf-8">>
JSONType == <<"application/json">>

\* http.Header: every name has the list of its values
NoHeaders == [h \in HeaderNames |-> << >>]
HeaderAdd(H, k, v) == [H EXCEPT ![k] = Append(@, v)]
HeaderSet(H, k, v) == [H EXCEPT ![k] = <<v>>]

\* Caller headers merged with Header.Add
MergeHeaders_add(H, hdrs) ==
    [h \in HeaderNames |-> IF h \in DOMAIN hdrs THEN Append(H[h], hdrs[h]) ELSE H[h]]

\* for headerName, headerValue := range headers { req.Header.Set(headerName,
\* fmt.Sprintf("%v", headerValue)) }; "%v" prints a string as it is
MergeHeaders(H, hdrs) ==
    [h \in HeaderNames |-> IF h \in DOMAIN hdrs THEN HeaderSet(H, h, hdrs[h])[h] ELSE H[h]]

\* body != nil (line 293): json.Marshal ran, which reqBody != nil decides
HasBody(req) == req.body # "nil"

BearerMode(c) == c.openStackToken # EmptyStr

\* The headers of the request (lines 292-305)
RequestHeaders(c, req) ==
    LET h1 == IF HasBody(req) THEN HeaderAdd(NoHeaders, "Content-Type", JSONCharset)
              ELSE NoHeaders
        h2 == HeaderAdd(h1, "Accept", JSONType)
        h3 == IF c.openStackToken # EmptyStr
              THEN HeaderAdd(h2, "X-Auth-Token", Sprintf(c.openStackToken))
              ELSE h2
    IN  MergeHeaders(h3, req.hdrs)

\* json.Marshal of an *UpdateNodePoolOpts that is not nil: the members of the
\* JSON object.  Every field is tagged omitempty: a nil pointer and a slice
\* without elements are left out, a pointer gives the value it points to.
MarshalOpts_null(o) ==
    [k \in {"minNodes", "maxNodes", "autoscale", "nodesToRemove"} |->
        CASE k = "minNodes" -> IF o.MinNodes = << >> THEN <<"null">> ELSE <<"number", o.MinNodes[1]>>
          [] k = "maxNodes" -> IF o.MaxNodes = << >> THEN <<"null">> ELSE <<"number", o.MaxNodes[1]>>
          [] k = "autoscale" -> IF o.Autoscale = << >> THEN <<"null">> ELSE <<"bool", o.Autoscale[1]>>
          [] k = "nodesToRemove" ->
                IF o.NodesToRemove = << >> THEN <<"null">> ELSE <<"array", o.NodesToRemove[1]>>]

MarshalOpts(o) ==
    LET keys == { k \in {"minNodes", "maxNodes", "autoscale", "nodesToRemove"} :
                    CASE k = "minNodes" -> o.MinNodes # << >>
                      [] k = "maxNodes" -> o.MaxNodes # << >>
                      [] k = "autoscale" -> o.Autoscale # << >>
                      [] k = "nodesToRemove" ->
                            o.NodesToRemove # << >> /\ Len(o.NodesToRemove[1]) > 0 }
    IN  [k \in keys |->
            CASE k = "minNodes" -> <<"number", o.MinNodes[1]>>
              [] k = "maxNodes" -> <<"number", o.MaxNodes[1]>>
              [] k = "autoscale" -> <<"bool", o.Autoscale[1]>>
              [] k = "nodesToRemove" -> <<"array", o.NodesToRemove[1]>>]

\* The body of the request: none when reqBody is nil, else json.Marshal of
\* reqBody; a nil *UpdateNodePoolOpts marshals to null
MarshalBody(req) ==
    CASE req.body = "nil" -> <<"none">>
      [] req.body = "opts" ->
            IF req.opts = << >> THEN <<"null">> ELSE <<"object", MarshalOpts(req.opts[1])>>
      [] OTHER -> <<"json", req.body>>

\* The *http.Request NewRequest returns
HTTPRequest(c, req) ==
    [ body |-> MarshalBody(req), method |-> req.method, url |-> c.endpoint \o req.path,
      header |-> RequestHeaders(c, req) ]
NoHTTP == [body |-> <<"none">>, method |-> "", url |-> EmptyStr, header |-> NoHeaders]

----------------------------------------------------------------------------
(* The signature block of NewRequest (lines 315-325) *)

\* The verb %d: the decimal digits of an integer, with its sign
DigitChar(d) == <<"0", "1", "2", "3", "4", "5", "6", "7", "8", "9">>[d + 1]
RECURSIVE Digits(_)
Digits(n) == IF n < 10 THEN <<DigitChar(n)>> ELSE Digits(n \div 10) \o <<DigitChar(n % 10)>>
FormatInt(n) == IF n < 0 THEN <<"-">> \o Digits(0 - n) ELSE Digits(n)

\* A digest input that has the application key in it, as the comment of
\* CallAPI has it (consumerKey)
DigestInput_key(c, method, path, body, timestamp) ==
    c.AppSecret \o <<"+">> \o c.AppKey \o <<"+">> \o method \o <<"+">> \o c.endpoint
        \o <<"+">> \o path \o body \o <<"+">> \o FormatInt(timestamp)

\* What is written to the SHA-1 hash: fmt.Sprintf("%s+%s+%s+%s%s+%d",
\* c.AppSecret, method, getEndpointForSignature(c), path, body, timestamp).
\* body is the []byte of json.Marshal, which %s prints as it is (nil: nothing)
DigestInput(c, method, path, body, timestamp) ==
    c.AppSecret \o <<"+">> \o method \o <<"+">> \o c.endpoint
        \o <<"+">> \o path \o body \o <<"+">> \o FormatInt(timestamp)

----------------------------------------------------------------------------
(* Do *)

\* c.Logger: nil, or an observer of the requests and the responses
Loggers == {"nil", "observer"}

\* What the observer is handed, and keeps
LogRequest(req) == <<"request", req>>
LogResponse(resp) == <<"response", resp>>

\* What c.Client.Do(req) gives: an error of the transport, or a response
TransportOutcomes ==
    { <<"err", e>> : e \in {ErrNetwork, ErrCanceled} } \cup { <<"resp", r>> : r \in Responses }

\* A Do that leaves the exchange to its logger's caller when it has a logger
Do_logged(logger, req, outcome) ==
    IF logger # "nil"
    THEN [err |-> Nil, resp |-> << >>, sent |-> 0, log |-> <<LogRequest(req)>>]
    ELSE IF outcome[1] = "err"
    THEN [err |-> outcome[2], resp |-> << >>, sent |-> 1, log |-> << >>]
    ELSE [err |-> Nil, resp |-> <<outcome[2]>>, sent |-> 1, log |-> << >>]

\* func (c *Client) Do(req): the *http.Response (<< >>: nil) and the error it
\* returns, the calls of c.Client.Do it made (sent) and what the logger saw
Do(logger, req, outcome) ==
    LET log1 == IF logger # "nil" THEN <<LogRequest(req)>> ELSE << >>
    IN  IF outcome[1] = "err"
        THEN [err |-> outcome[2], resp |-> << >>, sent |-> 1, log |-> log1]
        ELSE [ err |-> Nil, resp |-> <<outcome[2]>>, sent |-> 1,
               log |-> IF logger # "nil" THEN Append(log1, LogResponse(outcome[2]))
                       ELSE log1 ]

----------------------------------------------------------------------------
(* Call stacks *)

Frame(fn, pc, op, c, ctx, req) ==
    [ c |-> c, err |-> Nil, req |-> req, fn |-> fn, pc |-> pc, op |-> op,
      ctx |-> ctx, err2 |-> Nil, res |-> NoRet, fb |-> 0, waited |-> FALSE,
      http |-> NoHTTP, args |-> << >> ]

Depth(p) == Len(stack[p])
Busy(p) == Depth(p) > 0
Top(p) == stack[p][Depth(p)]
TopIs(p, fn, pc) == Busy(p) /\ Top(p).fn = fn /\ Top(p).pc = pc
SetTop(p, f) == [stack EXCEPT ![p][Depth(p)] = f]
Push(p, f, gs) == [stack EXCEPT ![p] = [@ EXCEPT ![Depth(p)] = f] \o gs]
Returning(f, r) == [f EXCEPT !.pc = "return", !.res = r]

\* p runs inside a getTimeDelta of the shared client that is fetching
UnderSharedFetch(p) ==
    \E i \in 1..Depth(p) :
        /\ stack[p][i].fn = "getTimeDelta"
        /\ stack[p][i].pc = "fetch"
        /\ stack[p][i].c = 1

\* The first free slot of clients
FreeSlot ==
    IF \E i \in 1..Len(clients) : clients[i] = Freed
    THEN CHOOSE i \in 1..Len(clients) :
            clients[i] = Freed /\ \A j \in 1..(i - 1) : clients[j] # Freed
    ELSE Len(clients) + 1

Count0 == [sent |-> 0, hops |-> 0]

----------------------------------------------------------------------------
(* Initial state: VKE_URL is unset or a URL, and the shared client was     *)
(* built by NewClient (signed mode) or NewDefaultClientWithToken (bearer   *)
(* mode) and construction returned no error.                               *)

Constructed(vke) ==
    { NewClient(vke, n, "key", "secret") : n \in {EuUrl, VkeUrl, VkeName, BadName, EmptyStr} }
        \cup { NewDefaultClientWithToken(vke, Tok) }

NoResult == [op |-> "", res |-> NoRet]

\* No function is being called on its own
Idle == [arg |-> << >>, fn |-> "", out |-> << >>]

Init ==
    /\ VKE \in {EmptyStr, VkeUrl}
    /\ \E r \in Constructed(VKE) : r.ok /\ clients = <<r.c>>
    /\ stack = [p \in Procs |-> << >>]
    /\ ret = [p \in Procs |-> NoRet]
    /\ cancelled = [p \in Procs |-> FALSE]
    /\ ops = [p \in Procs |-> 0]
    /\ results = [p \in Procs |-> NoResult]
    /\ count = [p \in Procs |-> Count0]
    /\ stats = [fetches |-> 0, failed |-> FALSE]
    /\ unit = Idle

----------------------------------------------------------------------------
(* Public operations: a caller with no operation in progress starts one *)

Start(p, fs) ==
    /\ ~Busy(p)
    /\ ops[p] < MaxCalls
    /\ ops' = [ops EXCEPT ![p] = @ + 1]
    /\ stack' = [stack EXCEPT ![p] = fs]
    /\ count' = [count EXCEPT ![p] = Count0]
    /\ results' = [results EXCEPT ![p] = NoResult]
    /\ UNCHANGED <<VKE, unit, clients, ret, cancelled, stats>>

\* The frames of c.getTime() up to its call of c.GetUnAuth("/auth/time",
\* &timestamp, nil): CallAPI passes context.Background() on
getTimeFrames(op, c) ==
    << Frame("getTime", "wait", op, c, Background, NoReq),
       Frame("CallAPIWithContext", "NewRequest", "", c, Background, TimeReq) >>

\* func (c *Client) TimeDelta(): return c.getTimeDelta()
TimeDelta(p) ==
    Start(p, <<Frame("getTimeDelta", "check", "TimeDelta", 1, Background, NoReq)>>)

\* A Ping that drops the cached offset before it asks for the time
Ping_resync(p) ==
    /\ ~Busy(p)
    /\ ops[p] < MaxCalls
    /\ ops' = [ops EXCEPT ![p] = @ + 1]
    /\ stack' = [stack EXCEPT ![p] = getTimeFrames("getTime", 1)]
    /\ count' = [count EXCEPT ![p] = Count0]
    /\ results' = [results EXCEPT ![p] = NoResult]
    /\ clients' = [clients EXCEPT ![1].timeDeltaDone = FALSE]
    /\ UNCHANGED <<VKE, unit, ret, cancelled, stats>>

\* func (c *Client) Ping(): _, err := c.getTime(); return err.  The result
\* recorded is getTime's; Ping hands its caller the err of it.
Ping(p) == Start(p, getTimeFrames("getTime", 1))

\* func (c *Client) Time(): return c.getTime()
Time(p) == Start(p, getTimeFrames("getTime", 1))

\* A caller's CallAPIWithContext(ctx, ...) on the shared client, ctx its own
CallAPIWithContext(p) ==
    \E r \in Requests :
        Start(p, <<Frame("CallAPIWithContext", "NewRequest", "CallAPIWithContext", 1, p, r)>>)

\* The caller cancels the context of its call in progress
Cancel(p) ==
    /\ Busy(p)
    /\ stack[p][1].ctx = p
    /\ ~cancelled[p]
    /\ cancelled' = [cancelled EXCEPT ![p] = TRUE]
    /\ UNCHANGED <<VKE, unit, clients, stack, ret, ops, results, count, stats>>

\* The running frame of p returns r: to the frame below it, or, when it is
\* the public operation itself, to the caller
Exit(p, r) ==
    /\ stack' = [stack EXCEPT ![p] = SubSeq(@, 1, Depth(p) - 1)]
    /\ ret' = [ret EXCEPT ![p] = IF Depth(p) = 1 THEN NoRet ELSE r]
    /\ results' = IF Depth(p) = 1
                  THEN [results EXCEPT ![p] = [op |-> Top(p).op, res |-> r]]
                  ELSE results
    /\ cancelled' = IF Depth(p) = 1 THEN [cancelled EXCEPT ![p] = FALSE] ELSE cancelled
    /\ count' = IF Depth(p) = 1 THEN [count EXCEPT ![p] = Count0] ELSE count

----------------------------------------------------------------------------
(* getTimeDelta *)

\* The unsynchronised read of c.timeDeltaDone at line 227: a goroutine that
\* has not synchronised with the writer (through the mutex) may still read
\* false.  The build targets amd64 (build.sh), where stores become visible in
\* program order: a goroutine that reads true reads the written timeDelta.
ObservedDone(c, p) ==
    IF c.timeDeltaDone /\ p \notin c.synced THEN {TRUE, FALSE} ELSE {c.timeDeltaDone}

\* if !c.timeDeltaDone { ... } return c.timeDelta, nil
getTimeDelta_check(p) ==
    /\ TopIs(p, "getTimeDelta", "check")
    /\ LET f == Top(p)
           c == clients[f.c]
       IN  \E seen \in ObservedDone(c, p) :
              IF seen
              THEN Exit(p, Ret(c.timeDelta, Nil))
              ELSE /\ stack' = SetTop(p, [f EXCEPT !.pc = "lock"])
                   /\ UNCHANGED <<ret, results, cancelled, count>>
    /\ UNCHANGED <<VKE, unit, clients, ops, stats>>

\* getTimeDelta without the second test of the flag
StillNeeded_unchecked(c) == TRUE

\* The second test of the flag, made with the mutex held (line 235)
StillNeeded(c) == ~c.timeDeltaDone

\* getTimeDelta with a Lock() that does not wait for the mutex to be free
getTimeDelta_lock_free(p) ==
    /\ TopIs(p, "getTimeDelta", "lock")
    /\ LET f == Top(p)
           c == clients[f.c]
       IN  IF StillNeeded(c)
           THEN /\ clients' = [clients EXCEPT ![f.c].timeDeltaMutex = p]
                /\ stack' = Push(p, [f EXCEPT !.pc = "fetch"], getTimeFrames("", f.c))
                /\ UNCHANGED <<ret, results, cancelled, count>>
           ELSE /\ clients' = [clients EXCEPT ![f.c].synced = @ \cup {p}]
                /\ Exit(p, Ret(c.timeDelta, Nil))
    /\ UNCHANGED <<VKE, unit, ops, stats>>

\* c.timeDeltaMutex.Lock(); defer c.timeDeltaMutex.Unlock();
\* if !c.timeDeltaDone { vkeTime, err := c.getTime() ... }; with the flag
\* set the deferred Unlock runs at once and c.timeDelta is returned
getTimeDelta_lock(p) ==
    /\ TopIs(p, "getTimeDelta", "lock")
    /\ LET f == Top(p)
           c == clients[f.c]
       IN  /\ c.timeDeltaMutex = 0
           /\ IF StillNeeded(c)
              THEN /\ clients' = [clients EXCEPT ![f.c].timeDeltaMutex = p]
                   /\ stack' = Push(p, [f EXCEPT !.pc = "fetch"], getTimeFrames("", f.c))
                   /\ UNCHANGED <<ret, results, cancelled, count>>
              ELSE /\ clients' = [clients EXCEPT ![f.c].synced = @ \cup {p}]
                   /\ Exit(p, Ret(c.timeDelta, Nil))
    /\ UNCHANGED <<VKE, unit, ops, stats>>

\* time.Since(t) when the local clock reads now; the local clock is ahead
\* of the server's by 1..MaxSkew
Since(t, now) == now - t
LocalNows(t) == { t + d : d \in 1..MaxSkew }

\* The callers blocked in Lock() on the mutex of client i, other than p
WaitingForMutex(i, p) ==
    { q \in Procs \ {p} : TopIs(q, "getTimeDelta", "lock") /\ Top(q).c = i }

\* A failed fetch that counts as done, as sync.Once would have it
FetchFailed_once(c) == [c EXCEPT !.timeDeltaDone = TRUE, !.timeDeltaMutex = 0]

\* The client after a failed fetch: nothing is cached, the mutex is released
FetchFailed(c) == [c EXCEPT !.timeDeltaMutex = 0]

\* The client after a fetch that returned server time t, the local clock
\* reading now, by goroutine p; the deferred Unlock has run
FetchSucceeded(c, t, now, p) ==
    [c EXCEPT !.timeDelta = Since(t, now), !.timeDeltaDone = TRUE,
              !.timeDeltaMutex = 0, !.synced = {p}]

\* vkeTime, err := c.getTime(); if err != nil { return 0, err }
\* c.timeDelta = time.Since(*vkeTime); c.timeDeltaDone = true;
\* return c.timeDelta, nil, and the deferred Unlock.
\* On a failure the frames of the callers blocked in Lock() are marked
\* (waited), to tell them from callers that arrive later.
getTimeDelta_fetched(p) ==
    /\ TopIs(p, "getTimeDelta", "fetch")
    /\ LET f == Top(p)
           c == clients[f.c]
           r == ret[p]
           w == WaitingForMutex(f.c, p)
           popped == SubSeq(stack[p], 1, Depth(p) - 1)
       IN  IF r.err # Nil
           THEN /\ clients' = [clients EXCEPT ![f.c] = FetchFailed(c)]
                /\ stack' = [q \in Procs |->
                               IF q = p THEN popped
                               ELSE IF q \in w THEN [stack[q] EXCEPT ![Depth(q)].waited = TRUE]
                               ELSE stack[q]]
                /\ ret' = [ret EXCEPT ![p] = IF Depth(p) = 1 THEN NoRet ELSE Ret(0, r.err)]
                /\ results' = IF Depth(p) = 1
                              THEN [results EXCEPT ![p] = [op |-> f.op, res |-> Ret(0, r.err)]]
                              ELSE results
                /\ count' = IF Depth(p) = 1 THEN [count EXCEPT ![p] = Count0] ELSE count
                /\ UNCHANGED cancelled
           ELSE \E now \in LocalNows(r.val) :
                /\ clients' = [clients EXCEPT ![f.c] = FetchSucceeded(c, r.val, now, p)]
                /\ Exit(p, Ret(Since(r.val, now), Nil))
    /\ UNCHANGED <<VKE, unit, ops, stats>>

----------------------------------------------------------------------------
(* getTime *)

\* err := c.GetUnAuth(...); if err != nil { return nil, err };
\* serverTime := time.Unix(timestamp, 0); return &serverTime, nil
getTime_ret(p) ==
    /\ TopIs(p, "getTime", "wait")
    /\ Exit(p, IF ret[p].err # Nil THEN Ret(0, ret[p].err) ELSE Ret(ret[p].val, Nil))
    /\ UNCHANGED <<VKE, unit, clients, ops, stats>>

----------------------------------------------------------------------------
(* CallAPIWithContext: NewRequest, Do, UnmarshalResponse, fallback *)

\* c.Client.Timeout = c.Timeout (line 329)
SetHTTPTimeout(c) == [c EXCEPT !.httpTimeout = c.Timeout]

\* The test that guards the signature block of NewRequest (line 309);
\* needAuth is not read
Signs(c, needAuth) == c.openStackToken = EmptyStr

\* NewRequest.  Entered (pc "NewRequest"): json.Marshal(reqBody), the
\* headers, and, when the signature block is entered, the call of
\* c.TimeDelta().  Resumed after that call (pc "sign"): if err != nil
\* { return nil, err }; the digest is computed and dropped.  Both ways end
\* with c.Client.Timeout = c.Timeout and hand the request to Do.
NewRequest(p) ==
    /\ Busy(p)
    /\ Top(p).fn = "CallAPIWithContext"
    /\ Top(p).pc \in {"NewRequest", "sign"}
    /\ LET f == Top(p)
           c == clients[f.c]
       IN  IF f.pc = "NewRequest" /\ f.req.body = "bad"
           THEN /\ stack' = SetTop(p, Returning(f, Ret(0, Err("marshal", 0, ""))))
                /\ UNCHANGED clients
           ELSE IF f.pc = "NewRequest" /\ Signs(c, f.req.needAuth)
           THEN /\ stack' = Push(p, [f EXCEPT !.pc = "sign"],
                                 <<Frame("getTimeDelta", "check", "", f.c, Background, NoReq)>>)
                /\ UNCHANGED clients
           ELSE IF f.pc = "sign" /\ ret[p].err # Nil
           THEN /\ stack' = SetTop(p, Returning(f, Ret(0, ret[p].err)))
                /\ UNCHANGED clients
           ELSE /\ clients' = [clients EXCEPT ![f.c] = SetHTTPTimeout(c)]
                /\ stack' = SetTop(p, [f EXCEPT !.pc = "Do", !.http = HTTPRequest(c, f.req)])
    /\ ret' = [ret EXCEPT ![p] = NoRet]
    /\ UNCHANGED <<VKE, unit, cancelled, ops, results, count, stats>>

Canceled(ctx) == ctx # Background /\ cancelled[ctx]

\* req = req.WithContext(ctx); c.Do(req): the exchange starts, unless the
\* context is already canceled
Do_send(p) ==
    /\ TopIs(p, "CallAPIWithContext", "Do")
    /\ LET f == Top(p)
       IN  IF Canceled(f.ctx)
           THEN /\ stack' = SetTop(p, Returning(f, Ret(0, ErrCanceled)))
                /\ UNCHANGED <<count, stats>>
           ELSE /\ stack' = SetTop(p, [f EXCEPT !.pc = "inflight"])
                /\ count' = [count EXCEPT ![p].sent = @ + 1]
                /\ stats' = IF UnderSharedFetch(p)
                            THEN [stats EXCEPT !.fetches = @ + 1] ELSE stats
    /\ UNCHANGED <<VKE, unit, clients, ret, cancelled, ops, results>>

\* stats after the exchange of p ended with error e (Nil: a decoded answer)
Answered(p, e) ==
    IF UnderSharedFetch(p) /\ e # Nil THEN [stats EXCEPT !.failed = TRUE] ELSE stats

\* The exchange in flight is aborted when its context is canceled
Do_abort(p) ==
    /\ TopIs(p, "CallAPIWithContext", "inflight")
    /\ Canceled(Top(p).ctx)
    /\ stack' = SetTop(p, Returning(Top(p), Ret(0, ErrCanceled)))
    /\ stats' = Answered(p, ErrCanceled)
    /\ UNCHANGED <<VKE, unit, clients, ret, cancelled, ops, results, count>>

\* A fallback client that is the client of the call, offset and all, pointed
\* at the fallback endpoint
FallbackClient_inherit(c) ==
    LET made == NewClient(VKE, VKE, "none", "none")
    IN  [made EXCEPT !.c = [c EXCEPT !.endpoint = made.c.endpoint, !.timeDeltaMutex = 0]]

\* The client the fallback call runs on (lines 407-411): a new client for
\* the endpoint VKE, carrying the token of c
FallbackClient(c) ==
    LET made == NewClient(VKE, VKE, "none", "none")
    IN  [made EXCEPT !.c.openStackToken = c.openStackToken]

\* A fallback that points the client of the call at the fallback endpoint
\* and issues the call on it again
Fallback_reuse(p, f, err) ==
    /\ clients' = [clients EXCEPT ![f.c].endpoint = VKE]
    /\ stack' = Push(p, [f EXCEPT !.pc = "fallback", !.err = err, !.fb = f.c],
                     <<Frame("CallAPIWithContext", "NewRequest", "", f.c, f.ctx, f.req)>>)
    /\ count' = [count EXCEPT ![p].hops = @ + 1]

\* A fallback that, when its client cannot be built, returns the error of the
\* failed call
Fallback_original(p, f, err) ==
    LET made == FallbackClient(clients[f.c])
        slot == FreeSlot
    IN  IF ~made.ok
        THEN /\ stack' = SetTop(p, Returning([f EXCEPT !.err = err], Ret(0, err)))
             /\ UNCHANGED <<clients, count>>
        ELSE /\ clients' = IF slot > Len(clients) THEN Append(clients, made.c)
                           ELSE [clients EXCEPT ![slot] = made.c]
             /\ stack' = Push(p, [f EXCEPT !.pc = "fallback", !.err = err, !.fb = slot],
                              <<Frame("CallAPIWithContext", "NewRequest", "", slot, f.ctx, f.req)>>)
             /\ count' = [count EXCEPT ![p].hops = @ + 1]

\* The fallback of lines 405-413 for the frame f of p whose decoded error is
\* err: the same call is issued on the fallback client with the same context
Fallback(p, f, err) ==
    LET made == FallbackClient(clients[f.c])
        slot == FreeSlot
    IN  IF ~made.ok
        THEN /\ stack' = SetTop(p, Returning([f EXCEPT !.err = err],
                               Ret(0, Err("fallback-create", 0, made.err.msg))))
             /\ UNCHANGED <<clients, count>>
        ELSE /\ clients' = IF slot > Len(clients) THEN Append(clients, made.c)
                           ELSE [clients EXCEPT ![slot] = made.c]
             /\ stack' = Push(p, [f EXCEPT !.pc = "fallback", !.err = err, !.fb = slot],
                              <<Frame("CallAPIWithContext", "NewRequest", "", slot, f.ctx, f.req)>>)
             /\ count' = [count EXCEPT ![p].hops = @ + 1]

\* A fallback started by every decoded error
ShouldFallback_any(err, url) == err # Nil

\* if err != nil { if IsPossiblyCanadianTenantSyncError(err, req.URL.String())
ShouldFallback(err, url) ==
    err # Nil /\ IsPossiblyCanadianTenantSyncError(err, url)

\* A failure of the transport that starts the fallback
Do_fail_fallback(p) ==
    /\ TopIs(p, "CallAPIWithContext", "inflight")
    /\ ~Canceled(Top(p).ctx)
    /\ count[p].hops < MaxHops
    /\ Fallback(p, Top(p), ErrNetwork)
    /\ stats' = Answered(p, ErrNetwork)
    /\ UNCHANGED <<VKE, unit, ret, cancelled, ops, results>>

\* The exchange fails in the transport: return err (lines 399-401)
Do_fail(p) ==
    /\ TopIs(p, "CallAPIWithContext", "inflight")
    /\ ~Canceled(Top(p).ctx)
    /\ stack' = SetTop(p, Returning(Top(p), Ret(0, ErrNetwork)))
    /\ stats' = Answered(p, ErrNetwork)
    /\ UNCHANGED <<VKE, unit, clients, ret, cancelled, ops, results, count>>

\* The response arrives: c.Do returns it, UnmarshalResponse decodes it, and
\* an error the classifier accepts starts the fallback (lines 402-421).
\* The servers answer at most MaxHops cross-region errors along one call.
Do_recv(p) ==
    /\ TopIs(p, "CallAPIWithContext", "inflight")
    /\ ~Canceled(Top(p).ctx)
    /\ \E resp \in Answers(Top(p).req) :
        LET f == Top(p)
            r == UnmarshalResponse(resp, f.req.sink)
            url == Target(clients[f.c], f.req.path)
        IN  /\ stats' = Answered(p, r.err)
            /\ IF r.err = Nil
               THEN /\ stack' = SetTop(p, Returning(f, r))
                    /\ UNCHANGED <<clients, count>>
               ELSE IF ShouldFallback(r.err, url)
               THEN /\ count[p].hops < MaxHops
                    /\ Fallback(p, f, r.err)
               ELSE /\ stack' = SetTop(p, Returning([f EXCEPT !.err = r.err], Ret(0, r.err)))
                    /\ UNCHANGED <<clients, count>>
    /\ UNCHANGED <<VKE, unit, ret, cancelled, ops, results>>

\* CallAPIWithContext returning the error of the fallback call
FallbackOutcome_err2(err, r2) == IF r2.err = Nil THEN Ret(r2.val, Nil) ELSE Ret(0, r2.err)

\* What CallAPIWithContext returns after the fallback call returned r2,
\* its own decoded error being err (lines 414-421)
FallbackOutcome(err, r2) == IF r2.err = Nil THEN Ret(r2.val, Nil) ELSE Ret(0, err)

\* err2 = client.CallAPIWithContext(...); if err2 == nil { return nil };
\* return err.  The fallback client is dropped.
AfterFallback(p) ==
    /\ TopIs(p, "CallAPIWithContext", "fallback")
    /\ LET f == Top(p)
       IN  /\ stack' = SetTop(p, Returning([f EXCEPT !.err2 = ret[p].err],
                                           FallbackOutcome(f.err, ret[p])))
           /\ clients' = [clients EXCEPT ![f.fb] = Freed]
    /\ ret' = [ret EXCEPT ![p] = NoRet]
    /\ UNCHANGED <<VKE, unit, cancelled, ops, results, count, stats>>

\* CallAPIWithContext returns
Return(p) ==
    /\ TopIs(p, "CallAPIWithContext", "return")
    /\ Exit(p, Top(p).res)
    /\ UNCHANGED <<VKE, unit, clients, ops, stats>>

----------------------------------------------------------------------------
(* Node-pool operations (nodepool.go) *)

ClusterID == <<"c1">>
PoolID == <<"p1">>
NodeName == <<"n1">>
ProjectID == <<"pr">>

\* An *UpdateNodePoolOpts with only MaxNodes set.  A pointer is << >> (nil) or
\* <<v>>, a slice << >> (nil) or <<its elements>>.
OptsOnlyMax ==
    [MinNodes |-> << >>, MaxNodes |-> <<5>>, Autoscale |-> << >>, NodesToRemove |-> << >>]

NodePoolOps ==
    { "ListNodePools", "GetNodePool", "ListNodePoolNodes", "CreateNodePool",
      "UpdateNodePool", "DeleteNodePool", "DeleteNode", "AddNode" }

\* The arguments of an operation: the identifiers and, for UpdateNodePool,
\* the options
OpArgs == [opts |-> <<OptsOnlyMax>>, cluster |-> ClusterID, pool |-> PoolID,
           node |-> NodeName, project |-> ProjectID]

\* GetNodePool asking for the path of the node groups
NodePoolRequest_groups(op, a) ==
    Req("GET", <<"/cluster/">> \o a.cluster \o <<"/nodegroups/">> \o a.pool, "nil", "struct", TRUE)

\* The method, the path fmt.Sprintf builds, reqBody, result and needAuth that
\* each operation passes to CallAPIWithContext
NodePoolRequest(op, a) ==
    CASE op = "ListNodePools" ->
            Req("GET", <<"/cluster/">> \o a.cluster \o <<"/nodegroups">>, "nil", "slice", TRUE)
      [] op = "GetNodePool" ->
            Req("GET", <<"/cluster/">> \o a.cluster \o <<"/nodepool/">> \o a.pool,
                "nil", "struct", TRUE)
      [] op = "ListNodePoolNodes" ->
            Req("GET", <<"/cluster/">> \o a.cluster \o <<"/nodegroups/">> \o a.pool
                           \o <<"/nodes">>, "nil", "slice", TRUE)
      [] op = "CreateNodePool" ->
            Req("POST", <<"/cloud/project/">> \o a.project \o <<"/kube/">> \o a.cluster
                            \o <<"/nodepool">>, "ok", "struct", TRUE)
      [] op = "UpdateNodePool" ->
            ReqWith("PUT", <<"/cluster/">> \o a.cluster \o <<"/nodegroups/">> \o a.pool,
                    "opts", "struct", TRUE, << >>, a.opts)
      [] op = "DeleteNodePool" ->
            Req("DELETE", <<"/cloud/project/">> \o a.project \o <<"/kube/">> \o a.cluster
                              \o <<"/nodepool/">> \o a.pool, "nil", "struct", TRUE)
      [] op = "DeleteNode" ->
            Req("DELETE", <<"/cluster/">> \o a.cluster \o <<"/nodegroups/">> \o a.pool
                              \o <<"/nodes/">> \o a.node, "nil", "nil", TRUE)
      [] op = "AddNode" ->
            Req("PUT", <<"/cluster/">> \o a.cluster \o <<"/nodegroups/">> \o a.pool
                           \o <<"/nodes/add">>, "nil", "struct", TRUE)

\* The context the operation hands to CallAPIWithContext: its own ctx
NodePoolContext(ctx) == ctx

\* An operation of p on the shared client: it calls CallAPIWithContext
NodePoolOp(p) ==
    \E op \in NodePoolOps :
        Start(p, << [Frame(op, "wait", op, 1, p, NoReq) EXCEPT !.args = OpArgs],
                    Frame("CallAPIWithContext", "NewRequest", "", 1,
                          NodePoolContext(p), NodePoolRequest(op, OpArgs)) >>)

\* Every operation returning the error of its call
OpResult_propagate(op, r) == r

\* return nodepool, c.CallAPIWithContext(...); DeleteNode: return nil
OpResult(op, r) == IF op = "DeleteNode" THEN Ret(0, Nil) ELSE r

\* The call has returned and the operation returns
NodePoolOp_ret(p) ==
    /\ Busy(p)
    /\ Top(p).fn \in NodePoolOps
    /\ Exit(p, OpResult(Top(p).fn, ret[p]))
    /\ UNCHANGED <<VKE, unit, clients, ops, stats>>

----------------------------------------------------------------------------

Step(p) ==
    \/ TimeDelta(p)
    \/ Ping(p)
    \/ Time(p)
    \/ CallAPIWithContext(p)
    \/ getTimeDelta_check(p)
    \/ getTimeDelta_lock(p)
    \/ getTimeDelta_fetched(p)
    \/ getTime_ret(p)
    \/ NewRequest(p)
    \/ Do_send(p)
    \/ Do_abort(p)
    \/ Do_fail(p)
    \/ Do_recv(p)
    \/ AfterFallback(p)
    \/ Return(p)

Next == \E p \in Procs : Step(p) \/ Cancel(p)

Spec == Init /\ [][Next]_vars

\* The node-pool operations: the shared client is in signed mode, or in bearer
\* mode with either token, and the autoscaler's loop, one goroutine, issues
\* its operations on it one after the other
Autoscaler == 1

PctTok == <<"t", "%", "d">>    \* a token with a per cent sign in it

PoolInit ==
    /\ VKE \in {EmptyStr, VkeUrl}
    /\ \E r \in Constructed(VKE) \cup {NewDefaultClientWithToken(VKE, PctTok)} :
          r.ok /\ clients = <<r.c>>
    /\ stack = [p \in Procs |-> << >>]
    /\ ret = [p \in Procs |-> NoRet]
    /\ cancelled = [p \in Procs |-> FALSE]
    /\ ops = [p \in Procs |-> 0]
    /\ results = [p \in Procs |-> NoResult]
    /\ count = [p \in Procs |-> Count0]
    /\ stats = [fetches |-> 0, failed |-> FALSE]
    /\ unit = Idle

PoolStep(p) ==
    \/ NodePoolOp(p)
    \/ TimeDelta(p)
    \/ NodePoolOp_ret(p)
    \/ getTimeDelta_check(p)
    \/ getTimeDelta_lock(p)
    \/ getTimeDelta_fetched(p)
    \/ getTime_ret(p)
    \/ NewRequest(p)
    \/ Do_send(p)
    \/ Do_abort(p)
    \/ Do_fail(p)
    \/ Do_recv(p)
    \/ AfterFallback(p)
    \/ Return(p)

PoolNext == PoolStep(Autoscaler) \/ Cancel(Autoscaler)

PoolSpec == PoolInit /\ [][PoolNext]_vars

\* The program that imports the package assigns its exported variable VKE:
\* the empty string, a URL, or a name without a slash.  The table Endpoints
\* was filled when the package was initialised and has none of these as a key.
SetVKE ==
    /\ \E v \in {EmptyStr, VkeUrl, BadName} : v # VKE /\ VKE' = v
    /\ UNCHANGED <<unit, clients, stack, ret, cancelled, ops, results, count, stats>>

\* The node-pool operations of the autoscaler's loop in a program that
\* assigns VKE after its client was built
EnvNext == PoolNext \/ SetVKE

EnvSpec == PoolInit /\ [][EnvNext]_vars

----------------------------------------------------------------------------
(* The functions of the package called on their own, on drawn arguments *)

\* NewClient(endpoint, appKey, appSecret, tenantid)
Call_NewClient ==
    /\ unit = Idle
    /\ \E endpoint \in {EuUrl, VkeUrl, VkeName, BadName, EmptyStr} :
       \E appKey \in {"", "key"} : \E appSecret \in {"", "secret"} :
          unit' = [ arg |-> <<endpoint, appKey, appSecret>>, fn |-> "NewClient",
                    out |-> NewClient(VKE, endpoint, appKey, appSecret) ]
    /\ UNCHANGED <<VKE, clients, stack, ret, cancelled, ops, results, count, stats>>

\* What the environment and the configuration files (/etc/vke.conf,
\* ~/.vke.conf, ./vke.conf) hold when a client is built: an endpoint, an
\* application key and an application secret, each of them possibly missing
Configurations == {EmptyStr, EuUrl} \X {"", "key"} \X {"", "secret"}

\* NewEndpointClient(endpoint), with the configuration conf in place
Call_NewEndpointClient ==
    /\ unit = Idle
    /\ \E endpoint \in {EuUrl, VkeName, BadName, EmptyStr} : \E conf \in Configurations :
          unit' = [ arg |-> <<endpoint, conf>>, fn |-> "NewEndpointClient",
                    out |-> NewEndpointClient(VKE, endpoint) ]
    /\ UNCHANGED <<VKE, clients, stack, ret, cancelled, ops, results, count, stats>>

\* NewDefaultClient(), with the configuration conf in place
Call_NewDefaultClient ==
    /\ unit = Idle
    /\ \E conf \in Configurations :
          unit' = [ arg |-> <<conf>>, fn |-> "NewDefaultClient",
                    out |-> NewDefaultClient(VKE) ]
    /\ UNCHANGED <<VKE, clients, stack, ret, cancelled, ops, results, count, stats>>

\* The headers maps a caller passes: any of the names, with its own value
CallerValue == <<"caller">>
CallerHeaders == UNION { [S -> {CallerValue}] : S \in SUBSET HeaderNames }

\* Values of UpdateNodePoolOpts, and the pointers to it a caller passes
AllOpts ==
    [ MinNodes : {<< >>, <<0>>, <<3>>}, MaxNodes : {<< >>, <<0>>, <<5>>},
      Autoscale : {<< >>, <<FALSE>>, <<TRUE>>},
      NodesToRemove : {<< >>, << << >> >>, << <<"n1">> >>} ]
OptsPointers == {<< >>} \cup { <<o>> : o \in AllOpts }

UnitRequests ==
    { ReqWith(m, PoolPath, b, "struct", TRUE, h, << >>) :
        m \in {"GET"}, b \in {"nil", "ok"}, h \in CallerHeaders }
    \cup { ReqWith("PUT", PoolPath, "opts", "struct", TRUE, << >>, o) : o \in OptsPointers }

\* c.NewRequest(method, path, reqBody, queryParams, headers, needAuth) on the
\* shared client in bearer mode, where it calls nothing that can block, with
\* a reqBody that json.Marshal accepts
Call_NewRequest ==
    /\ unit = Idle
    /\ BearerMode(clients[1])
    /\ \E req \in UnitRequests :
          unit' = [arg |-> req, fn |-> "NewRequest", out |-> HTTPRequest(clients[1], req)]
    /\ clients' = [clients EXCEPT ![1] = SetHTTPTimeout(@)]
    /\ UNCHANGED <<VKE, stack, ret, cancelled, ops, results, count, stats>>

\* The fields of a client that the signature block can read, as strings of
\* characters, and the other values it is run with
SignClients ==
    [ AppKey : {<<"k">>, <<"k", "2">>}, AppSecret : {<<"s">>, <<"s", "+">>},
      endpoint : {EuUrl, VkeUrl} ]
SignMethods == {<<"GET">>, <<"PUT">>}
SignPaths == {PoolPath, PoolPath \o <<"1">>}
SignBodies == {<< >>, <<"1">>}
SignTimestamps == {9, 10}
SignArgs == SignClients \X SignMethods \X SignPaths \X SignBodies \X SignTimestamps

\* The signature block run twice, on a and on b
Call_Signature ==
    /\ unit = Idle
    /\ \E a \in SignArgs : \E b \in SignArgs :
          unit' = [ arg |-> <<a, b>>, fn |-> "signature",
                    out |-> << DigestInput(a[1], a[2], a[3], a[4], a[5]),
                               DigestInput(b[1], b[2], b[3], b[4], b[5]) >> ]
    /\ UNCHANGED <<VKE, clients, stack, ret, cancelled, ops, results, count, stats>>

\* c.Do(req), for a request NewRequest built on the shared client, with
\* c.Logger set or not
Call_Do ==
    /\ unit = Idle
    /\ \E logger \in Loggers : \E r \in { x \in Requests : x.body # "bad" } :
       \E outcome \in TransportOutcomes :
          LET req == HTTPRequest(clients[1], r)
          IN  unit' = [ arg |-> <<logger, req, outcome>>, fn |-> "Do",
                        out |-> Do(logger, req, outcome) ]
    /\ UNCHANGED <<VKE, clients, stack, ret, cancelled, ops, results, count, stats>>

\* The responses and the result arguments UnmarshalResponse is called with
UnitResponses ==
    { [Resp(st, b) EXCEPT !.hdrQueryID = q] :
        st \in {199, 200, 204, 299, 300, 404, 500},
        b \in Bodies \cup {"notfound", "list"}, q \in {"", "q1"} }
Sinks == {"nil", "int64", "struct", "slice"}

\* c.UnmarshalResponse(response, result)
Call_UnmarshalResponse ==
    /\ unit = Idle
    /\ \E resp \in UnitResponses : \E sink \in Sinks :
          unit' = [ arg |-> <<resp, sink>>, fn |-> "UnmarshalResponse",
                    out |-> UnmarshalResponse(resp, sink) ]
    /\ UNCHANGED <<VKE, clients, stack, ret, cancelled, ops, results, count, stats>>

UnitNext ==
    \/ Call_NewClient
    \/ Call_NewEndpointClient
    \/ Call_NewDefaultClient
    \/ Call_NewRequest
    \/ Call_Signature
    \/ Call_Do
    \/ Call_UnmarshalResponse

UnitSpec == PoolInit /\ [][UnitNext]_vars

\* A goroutine that can take a step is scheduled
FairPoolSpec == PoolSpec /\ WF_vars(PoolNext)

----------------------------------------------------------------------------
(* Properties *)

Shared == clients[1]
SignedMode == Shared.openStackToken = EmptyStr
Frames(p) == { stack[p][i] : i \in 1..Depth(p) }
CallFrames(p) == { f \in Frames(p) : f.fn = "CallAPIWithContext" }

\* p's public operation op has returned r
Returned(p, op) == results[p].op = op
ReturnedOK(p, op) == Returned(p, op) /\ results[p].res.err = Nil

\* p is blocked in timeDeltaMutex.Lock()
Blocked(p) ==
    TopIs(p, "getTimeDelta", "lock") /\ clients[Top(p).c].timeDeltaMutex # 0

\* C1: when no exchange with the time endpoint fails, the callers of
\* TimeDelta on the shared client cause at most one exchange with it, exactly
\* one once a caller has returned, and all of them return the same offset.
C1_OneFetchSameOffset ==
    ~stats.failed =>
        /\ stats.fetches <= 1
        /\ (\E p \in Procs : ReturnedOK(p, "TimeDelta")) => stats.fetches = 1
        /\ \A p, q \in Procs :
              ReturnedOK(p, "TimeDelta") /\ ReturnedOK(q, "TimeDelta")
                  => results[p].res.val = results[q].res.val

\* Two callers of TimeDelta have returned after a single, successful fetch
C1_Witness ==
    /\ ~stats.failed
    /\ stats.fetches = 1
    /\ \E p, q \in Procs :
          p # q /\ ReturnedOK(p, "TimeDelta") /\ ReturnedOK(q, "TimeDelta")

\* C2: on a client in signed mode the first TimeDelta, and the first API
\* call, never block forever on the offset mutex: no goroutine waits in
\* Lock() for the mutex that it holds itself.
C2_NeverBlocksOnOwnMutex ==
    SignedMode =>
        \A p \in Procs :
            ~(TopIs(p, "getTimeDelta", "lock") /\ clients[Top(p).c].timeDeltaMutex = p)

\* C3: one CallAPIWithContext issues at most one fallback call: the
\* fallback call never starts a fallback of its own.
C3_SingleHop == \A p \in Procs : count[p].hops <= 1

\* C4: a CallAPIWithContext that issued the fallback call did so for an
\* error of its own that the classifier accepts; it returns no error when the
\* fallback call returned none, and its own error when the fallback failed.
C4_FallbackOutcome ==
    \A p \in Procs : \A f \in CallFrames(p) :
        f.pc = "return" /\ f.fb # 0 =>
            /\ IsPossiblyCanadianTenantSyncError(f.err, Target(clients[f.c], f.req.path))
            /\ f.err2 = Nil => f.res.err = Nil
            /\ f.err2 # Nil => f.res.err = f.err

\* One call returns its own error after its fallback failed with another
\* error, and one call returns no error after its fallback succeeded
C4_Witness ==
    \E p, q \in Procs :
        /\ TopIs(p, "CallAPIWithContext", "return")
        /\ Top(p).fb # 0 /\ Top(p).err2 \notin {Nil, Top(p).err}
        /\ Top(p).res.err = Top(p).err
        /\ TopIs(q, "CallAPIWithContext", "return")
        /\ Top(q).fb # 0 /\ Top(q).err2 = Nil /\ Top(q).res.err = Nil

\* C5: a call whose decoded error the classifier rejects issues no fallback
\* call and returns that error unchanged; when it is the caller's own call it
\* has made exactly one exchange.
C5_NoRetry ==
    \A p \in Procs : \A f \in CallFrames(p) :
        /\ f.pc = "return"
        /\ f.err # Nil
        /\ ~IsPossiblyCanadianTenantSyncError(f.err, Target(clients[f.c], f.req.path))
        => /\ f.fb = 0
           /\ f.res.err = f.err
           /\ Depth(p) = 1 => count[p].sent = 1

\* A caller's call returns an API error after its single exchange
C5_Witness ==
    \E p \in Procs :
        /\ TopIs(p, "CallAPIWithContext", "return")
        /\ Depth(p) = 1
        /\ Top(p).err.kind = "api" /\ Top(p).res.err = Top(p).err
        /\ count[p].sent = 1

\* p's getTimeDelta is about to learn that its fetch failed
FetchFailing(p) == TopIs(p, "getTimeDelta", "fetch") /\ ret[p].err # Nil

\* C6: when the fetch of getTimeDelta fails, the flag stays false, the stored
\* offset is unchanged, the mutex is released and the error is returned; the
\* flag is set only together with a measured (non-zero) offset, so that a
\* later call fetches again.
C6_FailedFetchNotCached ==
    /\ [][ \A p \in Procs :
              FetchFailing(p) /\ stack'[p] # stack[p] =>
                  LET i == Top(p).c
                  IN  /\ ~clients'[i].timeDeltaDone /\ ~clients[i].timeDeltaDone
                      /\ clients'[i].timeDelta = clients[i].timeDelta
                      /\ clients'[i].timeDeltaMutex = 0
                      /\ IF Depth(p) = 1
                         THEN results'[p].res = Ret(0, ret[p].err)
                         ELSE ret'[p] = Ret(0, ret[p].err) ]_vars
    /\ [](\A i \in 1..Len(clients) :
              clients[i].timeDeltaDone =>
                  clients[i].timeDelta # 0 /\ ~(\E p \in Procs : FetchFailing(p) /\ Top(p).c = i))

\* A TimeDelta has returned the error of its failed fetch and another
\* caller's getTimeDelta is fetching again
C6_Witness ==
    \E p, q \in Procs :
        /\ Returned(p, "TimeDelta") /\ results[p].res.err # Nil
        /\ ~Shared.timeDeltaDone
        /\ UnderSharedFetch(q) /\ TopIs(q, "CallAPIWithContext", "inflight")

\* C7: a caller that was waiting for the mutex when the winner's fetch
\* failed gets that error and performs no fetch of its own.
C7_WaitersShareFailure ==
    \A p \in Procs : \A f \in Frames(p) :
        f.fn = "getTimeDelta" /\ f.waited => f.pc # "fetch"

\* C8: every exchange made on behalf of a caller's CallAPIWithContext(ctx)
\* carries ctx, and a call whose ctx is canceled is never left blocked where
\* the cancellation cannot reach it.
C8_ExchangesCarryCallerContext ==
    \A p \in Procs :
        Busy(p) /\ stack[p][1].op = "CallAPIWithContext" =>
            /\ \A f \in CallFrames(p) : f.ctx = p
            /\ cancelled[p] => ~Blocked(p)

\* C9: the calls on the shared client write no field of it other than the
\* clock offset with its flag (and the mutex that guards them): no timeout
\* is written on the shared client.
C9_OnlyOffsetWritten ==
    [][ /\ Shared'.httpTimeout = Shared.httpTimeout
        /\ Shared'.Timeout = Shared.Timeout
        /\ Shared'.endpoint = Shared.endpoint
        /\ Shared'.AppKey = Shared.AppKey
        /\ Shared'.AppSecret = Shared.AppSecret
        /\ Shared'.openStackToken = Shared.openStackToken ]_vars

\* p starts a fallback call in this step
StartsFallback(p) == count'[p].hops > count[p].hops

\* C10: no step changes the endpoint, the credentials or the token of an
\* existing client; a fallback call runs on a client that did not exist
\* before and leaves the client of the failed call as it was.
C10_EndpointImmutable ==
    [][ /\ \A i \in 1..Len(clients) :
              clients[i] # Freed /\ clients'[i] # Freed =>
                  /\ clients'[i].endpoint = clients[i].endpoint
                  /\ clients'[i].AppKey = clients[i].AppKey
                  /\ clients'[i].AppSecret = clients[i].AppSecret
                  /\ clients'[i].openStackToken = clients[i].openStackToken
        /\ \A p \in Procs :
              StartsFallback(p) =>
                  LET f == Top(p)
                      g == stack'[p][Len(stack'[p])]
                  IN  /\ g.c # f.c
                      /\ g.c > Len(clients) \/ clients[g.c] = Freed
                      /\ clients'[g.c].endpoint = VKE
                      /\ clients'[f.c] = clients[f.c] ]_vars

\* A fallback call is running on its own client while the shared client
\* holds a cached offset
C10_Witness ==
    /\ Shared.timeDeltaDone
    /\ \E p \in Procs : \E f \in CallFrames(p) :
          f.pc = "fallback" /\ f.c = 1 /\ f.fb # 1 /\ clients[f.fb] # Freed

----------------------------------------------------------------------------
(* Request building *)

\* NewRequest has returned the request of frame f
Built(f) == f.http # NoHTTP

\* The bearer-mode part of C11 that concerns the signer and the clock offset
BearerNeverSigns ==
    \A p \in Procs : \A f \in CallFrames(p) :
        /\ f.pc = "sign" => ~BearerMode(clients[f.c])
        /\ BearerMode(clients[f.c]) /\ stack[p][1].op # "TimeDelta" =>
              \A g \in Frames(p) : g.fn # "getTimeDelta"

\* C11: on a client in bearer-token mode a call never enters the signature
\* block and never asks for the clock offset, and the request it builds
\* carries the client's token as its X-Auth-Token header; only calls on
\* clients in signed mode enter the signature block.
C11_BearerSkipsSigner ==
    /\ BearerNeverSigns
    /\ \A p \in Procs : \A f \in CallFrames(p) :
          BearerMode(clients[f.c]) /\ Built(f) =>
              f.http.header["X-Auth-Token"] = <<clients[f.c].openStackToken>>

\* C12: a call made with needAuth = false never enters the signature block
\* and so never asks for the clock offset.
C12_UnauthNeverSigned ==
    \A p \in Procs : \A f \in CallFrames(p) :
        ~f.req.needAuth => f.pc # "sign"

\* The request of frame f carries authentication material: the token header,
\* or, in signed mode, headers other than those every request has
CarriesAuth(f) ==
    IF BearerMode(clients[f.c]) THEN f.http.header["X-Auth-Token"] # << >>
    ELSE \E h \in HeaderNames \ {"Content-Type", "Accept"} : f.http.header[h] # << >>

\* An authenticated call of p has started on the shared client
AuthCallStarted(p) ==
    /\ Depth(p) = 2
    /\ TopIs(p, "CallAPIWithContext", "NewRequest")
    /\ Top(p).req.needAuth

\* The request of p's call is built and carries authentication material, or
\* the operation of p is over
SentWithAuth(p) ==
    \/ ~Busy(p)
    \/ \E f \in CallFrames(p) : Built(f) /\ CarriesAuth(f)

C14_HeadersMerged ==
    unit.fn = "NewRequest" =>
        LET hdrs == unit.arg.hdrs
            H == unit.out.header
        IN  /\ \A h \in DOMAIN hdrs : H[h] = <<hdrs[h]>>
            /\ "Content-Type" \notin DOMAIN hdrs =>
                  /\ H["Content-Type"] # << >> <=> unit.out.body # <<"none">>
                  /\ H["Content-Type"] \in {<< >>, <<JSONCharset>>}
            /\ "Accept" \notin DOMAIN hdrs => H["Accept"] = <<JSONType>>

\* A request with a body whose caller supplied Content-Type, Accept and the
\* token header
C14_Witness ==
    /\ unit.fn = "NewRequest"
    /\ unit.out.body = <<"json", "ok">>
    /\ {"Content-Type", "Accept", "X-Auth-Token"} \subseteq DOMAIN unit.arg.hdrs
    /\ unit.out.header["X-Auth-Token"] = <<CallerValue>>
    /\ unit.out.header["Content-Type"] = <<CallerValue>>

ParsesInto(body, sink) ==
    \/ sink = "int64" /\ body = "ts"
    \/ sink = "struct" /\ body \in {"sync", "notfound"}
    \/ sink = "slice" /\ body = "list"

Resolves(name) == Contains(name, "/") \/ (name = VkeName /\ VKE # EmptyStr)

\* C17: NewClient makes no exchange; for an endpoint name that is empty or
\* does not resolve it returns no client and an error naming the endpoint;
\* for one that resolves, an empty application key or secret gives no client
\* and an error naming the missing credential; otherwise it returns a client
\* of that endpoint and no error.
C17_ConstructionFailsFast ==
    unit.fn = "NewClient" =>
        LET name == unit.arg[1]
            key == unit.arg[2]
            secret == unit.arg[3]
            r == unit.out
        IN  /\ stats.fetches = 0 /\ \A p \in Procs : count[p].sent = 0
            /\ ~Resolves(name) =>
                  ~r.ok /\ r.err.kind = "config" /\ r.err.msg = "unknown endpoint"
                        /\ r.err.arg = name
            /\ Resolves(name) /\ key = "" =>
                  ~r.ok /\ r.err.kind = "config" /\ r.err.msg = "missing application key"
            /\ Resolves(name) /\ key # "" /\ secret = "" =>
                  ~r.ok /\ r.err.kind = "config" /\ r.err.msg = "missing application secret"
            /\ Resolves(name) /\ key # "" /\ secret # "" =>
                  /\ r.ok /\ r.err = Nil
                  /\ r.c.endpoint = (IF Contains(name, "/") THEN name ELSE VKE)

\* NewClient has refused a resolved endpoint for its missing application key
C17_Witness ==
    /\ unit.fn = "NewClient"
    /\ unit.arg = <<VkeName, "", "secret">>
    /\ VKE = VkeUrl
    /\ ~unit.out.ok /\ unit.out.err.msg = "missing application key"

\* The operation of p returns in this step; its call has returned ret[p]
OpReturns(p) ==
    /\ Busy(p)
    /\ Top(p).fn \in NodePoolOps
    /\ stack'[p] # stack[p]

\* C18: a node-pool operation returns, after its call has returned, the
\* error of that call, whatever it is; DeleteNode alone returns nil whatever
\* its call returned.
C18_ErrorsPropagate ==
    [][ \A p \in Procs :
          OpReturns(p) =>
              /\ stack'[p] = << >>
              /\ results'[p].op = Top(p).fn
              /\ results'[p].res.err =
                    (IF Top(p).fn = "DeleteNode" THEN Nil ELSE ret[p].err) ]_vars

\* UpdateNodePool has returned the API error of its call
C18_Witness ==
    \E p \in Procs :
        /\ results[p].op = "UpdateNodePool"
        /\ results[p].res.err.kind = "api"

\* The method and the path of each operation
OpMethod(op) ==
    CASE op \in {"ListNodePools", "GetNodePool", "ListNodePoolNodes"} -> "GET"
      [] op \in {"UpdateNodePool", "AddNode"} -> "PUT"
      [] op = "DeleteNode" -> "DELETE"

OpPath(op, a) ==
    CASE op = "ListNodePools" -> <<"/cluster/">> \o a.cluster \o <<"/nodegroups">>
      [] op = "GetNodePool" -> <<"/cluster/">> \o a.cluster \o <<"/nodepool/">> \o a.pool
      [] op = "ListNodePoolNodes" ->
            <<"/cluster/">> \o a.cluster \o <<"/nodegroups/">> \o a.pool \o <<"/nodes">>
      [] op = "UpdateNodePool" ->
            <<"/cluster/">> \o a.cluster \o <<"/nodegroups/">> \o a.pool
      [] op = "DeleteNode" ->
            <<"/cluster/">> \o a.cluster \o <<"/nodegroups/">> \o a.pool
                \o <<"/nodes/">> \o a.node
      [] op = "AddNode" ->
            <<"/cluster/">> \o a.cluster \o <<"/nodegroups/">> \o a.pool \o <<"/nodes/add">>

ListedOps ==
    {"ListNodePools", "GetNodePool", "ListNodePoolNodes", "UpdateNodePool", "DeleteNode", "AddNode"}

\* C19: the call a node-pool operation has issued is a CallAPIWithContext
\* on its client with needAuth true, the operation's own context and the
\* operation's method and path; once that call has returned the operation
\* returns, issuing no other.
C19_OneFixedCall ==
    /\ [](\A p \in Procs :
            Busy(p) /\ stack[p][1].fn \in ListedOps =>
                /\ stack[p][1].pc = "wait"
                /\ Depth(p) >= 2 =>
                      LET f == stack[p][2]
                      IN  /\ f.fn = "CallAPIWithContext"
                          /\ f.c = stack[p][1].c
                          /\ f.ctx = p
                          /\ f.req.needAuth
                          /\ f.req.method = OpMethod(stack[p][1].fn)
                          /\ f.req.path = OpPath(stack[p][1].fn, stack[p][1].args))
    /\ [][ \A p \in Procs : OpReturns(p) => stack'[p] = << >> ]_vars

\* The exchange of the call of GetNodePool is in flight
C19_Witness ==
    \E p \in Procs :
        /\ Depth(p) = 2
        /\ stack[p][1].fn = "GetNodePool"
        /\ stack[p][2].pc = "inflight"
        /\ stack[p][2].http.url = clients[1].endpoint \o <<"/cluster/", "c1", "/nodepool/", "p1">>

\* The options that are set: a pointer that is not nil, a list with elements
IsSet(o, k) ==
    CASE k = "minNodes" -> o.MinNodes # << >>
      [] k = "maxNodes" -> o.MaxNodes # << >>
      [] k = "autoscale" -> o.Autoscale # << >>
      [] k = "nodesToRemove" -> o.NodesToRemove \notin {<< >>, << << >> >>}

\* C20: the body of the request built for an UpdateNodePoolOpts is a JSON
\* object whose members are exactly the options that are set, each with its
\* value; an option that is not set has no member, neither null nor zero.
C20_UpdateBodyOmitsUnset ==
    unit.fn = "NewRequest" /\ unit.arg.body = "opts" /\ unit.arg.opts # << >> =>
        LET o == unit.arg.opts[1]
            b == unit.out.body
        IN  /\ b[1] = "object"
            /\ DOMAIN b[2] =
                  { k \in {"minNodes", "maxNodes", "autoscale", "nodesToRemove"} : IsSet(o, k) }
            /\ "minNodes" \in DOMAIN b[2] => b[2]["minNodes"] = <<"number", o.MinNodes[1]>>
            /\ "maxNodes" \in DOMAIN b[2] => b[2]["maxNodes"] = <<"number", o.MaxNodes[1]>>
            /\ "autoscale" \in DOMAIN b[2] => b[2]["autoscale"] = <<"bool", o.Autoscale[1]>>
            /\ "nodesToRemove" \in DOMAIN b[2] =>
                  b[2]["nodesToRemove"] = <<"array", o.NodesToRemove[1]>>

\* The body built for options with only MaxNodes set has maxNodes alone
C20_Witness ==
    /\ unit.fn = "NewRequest"
    /\ unit.arg.opts = <<OptsOnlyMax>>
    /\ unit.out.body[1] = "object"
    /\ DOMAIN unit.out.body[2] = {"maxNodes"}
    /\ unit.out.body[2]["maxNodes"] = <<"number", 5>>

----------------------------------------------------------------------------
(* Convenience constructors *)

\* The configuration holds both credentials
HasCredentials(conf) == conf[2] # "" /\ conf[3] # ""

\* C21: NewEndpointClient, for an endpoint that resolves, and NewDefaultClient,
\* for a configuration that holds an endpoint, return a client and no error
\* when the environment or the configuration files hold the credentials.
C21_ClientFromConfiguration ==
    /\ unit.fn = "NewEndpointClient" =>
          (Resolves(unit.arg[1]) /\ HasCredentials(unit.arg[2])
              => unit.out.ok /\ unit.out.err = Nil)
    /\ unit.fn = "NewDefaultClient" =>
          (unit.arg[1][1] # EmptyStr /\ HasCredentials(unit.arg[1])
              => unit.out.ok /\ unit.out.err = Nil)

----------------------------------------------------------------------------
(* The cached clock offset *)

\* C22: a cached clock offset is never invalidated and never changed, by
\* any step of any operation; once it is cached no exchange is made for
\* getTimeDelta again, and every TimeDelta that has returned without error
\* has returned the cached value.
C22_OffsetCachedOnce ==
    /\ [][ \A i \in 1..Len(clients) :
              clients[i].timeDeltaDone =>
                  /\ clients'[i].timeDeltaDone
                  /\ clients'[i].timeDelta = clients[i].timeDelta ]_vars
    /\ [][ Shared.timeDeltaDone => stats'.fetches = stats.fetches ]_vars
    /\ [](\A p \in Procs :
             ReturnedOK(p, "TimeDelta") =>
                 Shared.timeDeltaDone /\ results[p].res.val = Shared.timeDelta)

\* After one caller's TimeDelta has cached the offset, another caller's
\* TimeDelta, which read the flag before it was set, is about to take the
\* mutex and find the offset cached
C22_Witness ==
    \E p, q \in Procs :
        /\ ReturnedOK(p, "TimeDelta")
        /\ Shared.timeDeltaDone /\ Shared.timeDelta = results[p].res.val
        /\ stats.fetches = 1
        /\ Depth(q) = 1 /\ TopIs(q, "getTimeDelta", "lock")
        /\ Shared.timeDeltaMutex = 0

----------------------------------------------------------------------------
(* The logger *)

\* The other setting of c.Logger
OtherLogger(logger) == IF logger = "nil" THEN "observer" ELSE "nil"

\* C23: for the same request and the same outcome of the transport, Do
\* returns the same response and the same error with a logger and without
\* one, and makes one exchange either way.
C23_LoggerTransparent ==
    unit.fn = "Do" =>
        LET other == Do(OtherLogger(unit.arg[1]), unit.arg[2], unit.arg[3])
        IN  /\ unit.out.resp = other.resp
            /\ unit.out.err = other.err
            /\ unit.out.sent = 1 /\ other.sent = 1

\* Do, with a logger that saw the request and the response, has returned the
\* response of its exchange
C23_Witness ==
    /\ unit.fn = "Do"
    /\ unit.arg[1] = "observer"
    /\ unit.arg[3] = <<"resp", Resp(200, "ts")>>
    /\ unit.out.resp = <<Resp(200, "ts")>>
    /\ Len(unit.out.log) = 2

----------------------------------------------------------------------------
(* The signature *)

\* The six signed fields of a run of the signature block: secret, method,
\* endpoint, path, body, timestamp
SignedFields(a) == <<a[1].AppSecret, a[2], a[1].endpoint, a[3], a[4], a[5]>>

\* The fields in which two runs differ
Differing(a, b) == { i \in 1..6 : SignedFields(a)[i] # SignedFields(b)[i] }

FieldStrings(a) ==
    <<a[1].AppSecret, a[2], a[1].endpoint, a[3], a[4], FormatInt(a[5])>>
RECURSIVE JoinPlus(_)
JoinPlus(fs) ==
    IF Len(fs) = 1 THEN fs[1] ELSE fs[1] \o <<"+">> \o JoinPlus(Tail(fs))
NoDelimiter(a) == \A i \in 1..6 : ~Contains(FieldStrings(a)[i], "+")

\* Two runs whose fields are free of the delimiter and differ write different
\* digest inputs
DigestInjective ==
    unit.fn = "signature" =>
        (/\ NoDelimiter(unit.arg[1]) /\ NoDelimiter(unit.arg[2])
         /\ SignedFields(unit.arg[1]) # SignedFields(unit.arg[2])
            => unit.out[1] # unit.out[2])

\* C25: the digest input is the six fields, in their order, with the
\* delimiter + between every two consecutive fields, so that two runs whose
\* fields are free of the delimiter and differ write different digest inputs.
C25_DelimitedInjective ==
    /\ unit.fn = "signature" => unit.out[1] = JoinPlus(FieldStrings(unit.arg[1]))
    /\ DigestInjective

----------------------------------------------------------------------------
(* The fallback call *)

\* C26: the client a fallback call is started on carries the token of the
\* client of the failed call and has no cached clock offset; the fallback call
\* is a CallAPIWithContext at its beginning, with the method, path, body,
\* result, query parameters, headers and needAuth of the failed call and with
\* its context.
C26_FallbackReissuesCall ==
    [][ \A p \in Procs :
          StartsFallback(p) =>
              LET f == Top(p)
                  g == stack'[p][Len(stack'[p])]
                  fb == clients'[g.c]
              IN  /\ Len(stack'[p]) = Depth(p) + 1
                  /\ fb.openStackToken = clients[f.c].openStackToken
                  /\ ~fb.timeDeltaDone /\ fb.timeDelta = 0 /\ fb.timeDeltaMutex = 0
                  /\ g.fn = "CallAPIWithContext" /\ g.pc = "NewRequest"
                  /\ g.req = f.req
                  /\ g.ctx = f.ctx ]_vars

\* While the shared client holds a cached offset, the fallback call of a call
\* with query parameters and a caller's header is about to build its request,
\* on a client that carries the token and has no offset
C26_Witness ==
    /\ Shared.timeDeltaDone
    /\ \E p \in Procs :
          /\ Depth(p) = 2
          /\ stack[p][1].pc = "fallback" /\ stack[p][1].c = 1
          /\ stack[p][2].pc = "NewRequest"
          /\ stack[p][2].req.query # << >> /\ DOMAIN stack[p][2].req.hdrs # {}
          /\ stack[p][2].req = stack[p][1].req
          /\ stack[p][2].ctx = p
          /\ clients[stack[p][2].c].openStackToken = Shared.openStackToken
          /\ ~clients[stack[p][2].c].timeDeltaDone

\* The CallAPIWithContext that p is running returns in this step before any
\* response was decoded: NewRequest failed, the context was canceled before
\* the exchange, or the exchange failed
FailsEarly(p) ==
    /\ Busy(p)
    /\ Top(p).fn = "CallAPIWithContext"
    /\ Len(stack'[p]) = Depth(p)
    /\ stack'[p][Depth(p)].pc = "return"
    /\ \/ Top(p).pc \in {"NewRequest", "sign", "Do"}
       \/ Top(p).pc = "inflight" /\ stack'[p][Depth(p)].res.err.kind = "transport"

\* C27: a CallAPIWithContext whose request construction or whose exchange
\* fails returns that error at once: the step creates no client, starts no
\* fallback call and no exchange, and no error is handed to the classifier;
\* a call that returns an error of request construction or of the transport
\* has started no fallback.
C27_FailoverOnlyAfterDecode ==
    /\ [][ \A p \in Procs :
              FailsEarly(p) =>
                  LET g == stack'[p][Depth(p)]
                  IN  /\ g.res.err.kind \in {"marshal", "transport"}
                      /\ g.res.val = 0
                      /\ g.err = Nil /\ g.fb = 0
                      /\ clients' = clients
                      /\ count'[p] = count[p] ]_vars
    /\ [](\A p \in Procs : \A f \in CallFrames(p) :
             f.pc = "return" /\ f.res.err.kind \in {"marshal", "transport"} =>
                 f.fb = 0 /\ f.err = Nil)

\* One caller's call returns the error of its canceled exchange and another's
\* the error of json.Marshal; neither has started a fallback
C27_Witness ==
    \E p, q \in Procs :
        /\ TopIs(p, "CallAPIWithContext", "return") /\ Depth(p) = 1
        /\ Top(p).res.err = ErrCanceled /\ count[p] = [sent |-> 1, hops |-> 0]
        /\ TopIs(q, "CallAPIWithContext", "return") /\ Depth(q) = 1
        /\ Top(q).res.err.kind = "marshal" /\ count[q] = Count0
        /\ Len(clients) = 1

\* In this step the error that p's call decoded is accepted by the classifier
\* while no client can be built for the fallback endpoint
FallbackUnbuildable(p) ==
    /\ TopIs(p, "CallAPIWithContext", "inflight")
    /\ Len(stack'[p]) >= Depth(p)
    /\ stack'[p][Depth(p)].err # Nil
    /\ IsPossiblyCanadianTenantSyncError(stack'[p][Depth(p)].err,
                                         Target(clients[Top(p).c], Top(p).req.path))
    /\ ~NewClient(VKE, VKE, "none", "none").ok

\* C28: when the decoded error is classified as cross-region and the client
\* of the fallback endpoint cannot be built, CallAPIWithContext starts no
\* fallback call, creates no client, makes no further exchange and returns an
\* error of fallback construction that carries the configuration error, not
\* the decoded error.
C28_FallbackConstructionError ==
    [][ \A p \in Procs :
          FallbackUnbuildable(p) =>
              LET g == stack'[p][Depth(p)]
              IN  /\ Len(stack'[p]) = Depth(p)
                  /\ g.pc = "return" /\ g.fb = 0
                  /\ g.res.err.kind = "fallback-create"
                  /\ g.res.err.msg = NewClient(VKE, VKE, "none", "none").err.msg
                  /\ g.res.err # g.err
                  /\ clients' = clients
                  /\ count' = count ]_vars

\* With VKE emptied after the client was built, a call whose single exchange
\* was answered with the cross-region error returns the error of fallback
\* construction
C28_Witness ==
    \E p \in Procs :
        /\ VKE = EmptyStr
        /\ Busy(p) /\ Top(p).fn = "CallAPIWithContext" /\ Top(p).pc = "return"
        /\ Top(p).err.msg = "sync"
        /\ Top(p).res.err = Err("fallback-create", 0, "unknown endpoint")
        /\ count[p] = [sent |-> 1, hops |-> 0]
        /\ Len(clients) = 1

----------------------------------------------------------------------------
(* The offset mutex *)

\* The getTimeDelta frames of client i that are between Lock() and the
\* deferred Unlock(): <<caller, position in its stack>>
InCritical(i) ==
    UNION { { <<p, k>> : k \in { n \in 1..Depth(p) :
                                   /\ stack[p][n].fn = "getTimeDelta"
                                   /\ stack[p][n].pc = "fetch"
                                   /\ stack[p][n].c = i } } : p \in Procs }

\* The callers whose exchange in flight belongs to a fetch of client i
FetchesInFlight(i) ==
    { p \in Procs :
        /\ Busy(p) /\ Top(p).pc = "inflight"
        /\ \E x \in InCritical(i) : x[1] = p }

\* C29: on every client at most one getTimeDelta is between acquiring the
\* mutex and releasing it, and it is the holder's; at most one exchange of a
\* time fetch is in flight; a step that writes the cached offset or its flag
\* is a step of the holder of the mutex, in its getTimeDelta.
C29_FetchMutualExclusion ==
    /\ [](\A i \in 1..Len(clients) :
             /\ Cardinality(InCritical(i)) <= 1
             /\ \A x \in InCritical(i) : clients[i].timeDeltaMutex = x[1]
             /\ clients[i].timeDeltaMutex # 0 =>
                   \E x \in InCritical(i) : x[1] = clients[i].timeDeltaMutex
             /\ Cardinality(FetchesInFlight(i)) <= 1)
    /\ [][ \A i \in 1..Len(clients) :
              \/ clients'[i].timeDelta # clients[i].timeDelta
              \/ clients'[i].timeDeltaDone # clients[i].timeDeltaDone
              => \E p \in Procs :
                    /\ clients[i].timeDeltaMutex = p
                    /\ TopIs(p, "getTimeDelta", "fetch") /\ Top(p).c = i
                    /\ stack'[p] # stack[p] ]_vars

\* The exchange of one caller's time fetch is in flight, under the mutex,
\* while another caller waits in Lock()
C29_Witness ==
    \E p, q \in Procs :
        /\ p # q
        /\ Shared.timeDeltaMutex = p
        /\ InCritical(1) = {<<p, 1>>}
        /\ FetchesInFlight(1) = {p}
        /\ Blocked(q) /\ Top(q).c = 1

====
